---- MODULE Spec2Model ----
(***************************************************************************)
(* InvestGrow: the referral graph builder, the investment lifecycle, the   *)
(* payout scheduler and the commission fan-out, as the SQL of              *)
(* supabase/migrations/20250408010008_flat_block.sql defines them.         *)
(*                                                                         *)
(* The state is the committed content of the tables plus the transactions  *)
(* that are in flight.  PostgreSQL runs every function call and every      *)
(* trigger in a READ COMMITTED transaction: a statement reads what was     *)
(* committed when the statement starts, an UPDATE of a row waits for the   *)
(* transaction that holds the row and then reads the row's latest version, *)
(* and a violated constraint aborts the whole transaction.                 *)
(***************************************************************************)
EXTENDS Integers, Sequences, FiniteSets, Bags, TLC

VARIABLES
  profiles,           \* table profiles: id -> row
  referrals,          \* table referrals: set of rows
  investments,        \* table investments: id -> row
  earnings,           \* table earnings: bag of rows (rows differ only by uuid)
  referral_earnings,  \* table referral_earnings: bag of rows
  payment_proofs,     \* table payment_proofs: bag of rows
  clock,              \* the database clock, read by now()
  regs,               \* sign-ups in flight: handle_new_user, per new auth.users row
  uploads,            \* PaymentModal.handleUpload in flight: investment id -> next step
  calls,              \* approve_investment calls in flight
  withdrawals,        \* table withdrawals: bag of rows
  withdrawal_settings,\* table withdrawal_settings: its single row
  bank_details,       \* table bank_details: user_id -> row (UNIQUE(user_id))
  tabs                \* WithdrawalsPage.handleWithdrawal in flight, per open page

vars == <<profiles, referrals, investments, earnings, referral_earnings,
          payment_proofs, clock, regs, uploads, calls,
          withdrawals, withdrawal_settings, bank_details, tabs>>

\* SQL NULL, for the columns and variables that hold ids, codes and timestamps
\* (all of which are positive).
NULL == 0

-----------------------------------------------------------------------------
(* Program constants *)

MaxDirectReferrals == 10
MaxLevel == 10
PayoutCount == 40
TermMonths == 40
RoiPercent == 5

(* Bounds of the model *)

NumFresh == 2        \* sign-ups that run concurrently
TicksPerMonth == 2   \* clock ticks per calendar month
MaxClock == 2        \* approve_investment calls in one behaviour
MaxInvestments == 2  \* rows of table investments

NumTabs == 2         \* pages on which one owner requests withdrawals
MaxWithdrawals == 3  \* rows of table withdrawals

-----------------------------------------------------------------------------
(* The withdrawal tables as the migration leaves them                      *)

\* INSERT INTO withdrawal_settings ... VALUES (1000, 100000, 24, 0, 0), in hundredths.
DefaultSettings ==
  [ min_withdrawal_amount |-> 100000,
    max_withdrawal_amount |-> 10000000,
    min_balance_required |-> 0 ]

IdleTab == [ pc |-> "idle", user_id |-> NULL, amount |-> NULL, bank_details_id |-> NULL ]

\* No withdrawal was requested, the settings are the default row, no bank
\* account is on file and no withdrawals page is in use.
NoWithdrawals ==
  /\ withdrawals = EmptyBag
  /\ withdrawal_settings = DefaultSettings
  /\ bank_details = <<>>
  /\ tabs = [ t \in 1..NumTabs |-> IdleTab ]

UnchangedWithdrawals ==
  UNCHANGED <<withdrawals, withdrawal_settings, bank_details, tabs>>

-----------------------------------------------------------------------------
(* Sign-up: generate_unique_referral_code and handle_new_user              *)

ChainUsers == 1..11                  \* accounts that exist in the initial state
FreshUsers == 12..(11 + NumFresh)    \* accounts that sign up during a behaviour
Users == ChainUsers \cup FreshUsers

\* The codes the MD5 draw of a fresh sign-up can produce (one more code than
\* sign-ups, so a clash is possible and a free code always exists).
FreshCodes == 101..(101 + NumFresh)
BadCode == 102 + NumFresh            \* a code no account holds

\* generate_unique_referral_code: the loop exits with a code that no visible
\* profile holds.
generate_unique_referral_code(profs, space) ==
  { c \in space : ~ \E p \in DOMAIN profs : profs[p].referral_code = c }

\* The row handle_new_user inserts into profiles.
NewProfile(v_referral_code, v_referrer_code) ==
  [ referral_code |-> v_referral_code,
    referrer_code |-> v_referrer_code,
    direct_referrals |-> 0,
    first_investment_date |-> NULL ]

\* SELECT id INTO v_referrer_id FROM profiles
\*  WHERE referral_code = v_referrer_code AND direct_referrals < 10
LookupReferrer(profs, v_referrer_code) ==
  LET m == { p \in DOMAIN profs :
               /\ profs[p].referral_code = v_referrer_code
               /\ profs[p].direct_referrals < MaxDirectReferrals }
  IN IF v_referrer_code = NULL \/ m = {} THEN NULL ELSE CHOOSE p \in m : TRUE

\* ChainStep with the recursion stopped one level early (rc.level < 9).
ChainStepCutShort(profs, work) ==
  { [ id |-> p, referrer_code |-> profs[p].referrer_code, level |-> rc.level + 1 ] :
      <<rc, p>> \in { x \in work \X DOMAIN profs :
                        /\ x[1].level < MaxLevel - 1
                        /\ x[1].referrer_code # NULL
                        /\ profs[x[2]].referral_code = x[1].referrer_code } }

\* The recursive term of the CTE referral_chain: the profiles whose
\* referral_code is the referrer_code of a row of the working table, one level up.
ChainStep(profs, work) ==
  { [ id |-> p, referrer_code |-> profs[p].referrer_code, level |-> rc.level + 1 ] :
      <<rc, p>> \in { x \in work \X DOMAIN profs :
                        /\ x[1].level < MaxLevel
                        /\ x[1].referrer_code # NULL
                        /\ profs[x[2]].referral_code = x[1].referrer_code } }

RECURSIVE ChainFrom(_, _)
ChainFrom(profs, work) ==
  IF work = {} THEN {} ELSE work \cup ChainFrom(profs, ChainStep(profs, work))

\* WITH RECURSIVE referral_chain: the direct referrer at level 1, then upwards.
referral_chain(profs, v_referrer_id) ==
  ChainFrom(profs, { [ id |-> v_referrer_id,
                       referrer_code |-> profs[v_referrer_id].referrer_code,
                       level |-> 1 ] })

\* INSERT INTO referrals (referrer_id, referred_id, level) SELECT id, new.id, level
NewReferrals(profs, v_referrer_id, new_id) ==
  { [ referrer_id |-> rc.id, referred_id |-> new_id, level |-> rc.level ] :
      rc \in referral_chain(profs, v_referrer_id) }

\* CHECK (level BETWEEN 1 AND 10) and UNIQUE(referred_id, level) of table referrals.
ReferralsConstraintsOk(refs, rows) ==
  /\ \A r \in rows : r.level \in 1..MaxLevel
  /\ \A r \in rows : \A s \in refs \cup rows :
       (r.referred_id = s.referred_id /\ r.level = s.level) => r = s

\* DirectReferralsCheck without the upper bound of the CHECK.
DirectReferralsUncapped(n) == n >= 0

\* CHECK (direct_referrals >= 0 AND direct_referrals <= 10) of table profiles.
DirectReferralsCheck(n) == n >= 0 /\ n <= MaxDirectReferrals

\* FinishRegistration on a table profiles whose referral_code is not UNIQUE.
FinishRegistrationWithoutUnique(profs, refs, new_id, row, v_referrer_id, rows) ==
  LET count == IF v_referrer_id = NULL THEN 0
               ELSE profs[v_referrer_id].direct_referrals + 1
      ok == /\ new_id \notin DOMAIN profs
            /\ ReferralsConstraintsOk(refs, rows)
            /\ DirectReferralsCheck(count)
      withNew == [ p \in DOMAIN profs \cup {new_id} |->
                     IF p = new_id THEN row ELSE profs[p] ]
  IN IF ~ ok THEN [ ok |-> FALSE, profiles |-> profs, referrals |-> refs ]
     ELSE [ ok |-> TRUE,
            profiles |-> IF v_referrer_id = NULL THEN withNew
                         ELSE [ withNew EXCEPT ![v_referrer_id].direct_referrals = count ],
            referrals |-> refs \cup rows ]

\* The end of handle_new_user and the commit of its transaction: the profile
\* and the referral rows become visible, the referrer's counter is incremented
\* on the row's latest version, and a violated constraint aborts everything.
FinishRegistration(profs, refs, new_id, row, v_referrer_id, rows) ==
  LET codeFree == ~ \E p \in DOMAIN profs : profs[p].referral_code = row.referral_code
      count == IF v_referrer_id = NULL THEN 0
               ELSE profs[v_referrer_id].direct_referrals + 1
      ok == /\ new_id \notin DOMAIN profs
            /\ codeFree
            /\ ReferralsConstraintsOk(refs, rows)
            /\ DirectReferralsCheck(count)
      withNew == [ p \in DOMAIN profs \cup {new_id} |->
                     IF p = new_id THEN row ELSE profs[p] ]
  IN IF ~ ok THEN [ ok |-> FALSE, profiles |-> profs, referrals |-> refs ]
     ELSE [ ok |-> TRUE,
            profiles |-> IF v_referrer_id = NULL THEN withNew
                         ELSE [ withNew EXCEPT ![v_referrer_id].direct_referrals = count ],
            referrals |-> refs \cup rows ]

\* handle_new_user run alone, from its first statement to its commit.
RegisterAlone(db, new_id, v_referral_code, v_referrer_code) ==
  LET row == NewProfile(v_referral_code, v_referrer_code)
      own == [ p \in DOMAIN db.profiles \cup {new_id} |->
                 IF p = new_id THEN row ELSE db.profiles[p] ]
      v_referrer_id == LookupReferrer(own, v_referrer_code)
      rows == IF v_referrer_id = NULL THEN {}
              ELSE NewReferrals(own, v_referrer_id, new_id)
      res == FinishRegistration(db.profiles, db.referrals, new_id, row, v_referrer_id, rows)
  IN [ profiles |-> res.profiles, referrals |-> res.referrals ]

EmptyDb == [ profiles |-> <<>>, referrals |-> {} ]

\* The accounts 1..n signed up one after the other, account u with the code of
\* account inviter[u] (0: without a code); account u holds the code u.
RECURSIVE Population(_, _)
Population(n, inviter) ==
  IF n = 0 THEN EmptyDb
  ELSE RegisterAlone(Population(n - 1, inviter), n, n,
                     IF inviter[n] = 0 THEN NULL ELSE inviter[n])

\* A chain 1 <- 2 <- ... <- 11, and a star in which account 1 has 8 or 9
\* direct referrals and the remaining accounts signed up without a code.
ChainShape == [ u \in ChainUsers |-> u - 1 ]
StarShape(k) == [ u \in ChainUsers |-> IF u \in 2..(k + 1) THEN 1 ELSE 0 ]
InitialShapes == { ChainShape, StarShape(8), StarShape(9) }

IdleReg == [ pc |-> "idle", v_referrer_code |-> NULL, v_referral_code |-> NULL,
             v_referrer_id |-> NULL, rows |-> {} ]

InitReg ==
  /\ \E shape \in InitialShapes :
       LET db == Population(11, shape)
       IN profiles = db.profiles /\ referrals = db.referrals
  /\ investments = <<>>
  /\ earnings = EmptyBag
  /\ referral_earnings = EmptyBag
  /\ payment_proofs = EmptyBag
  /\ clock = 1
  /\ regs = [ u \in FreshUsers |-> IdleReg ]
  /\ uploads = <<>>
  /\ calls = {}
  /\ NoWithdrawals

\* The codes a person signing up can type: none, a code nobody holds, or the
\* code of an account they were invited by (the root, its first referral, the
\* two deepest accounts of the chain, or another new account).
Inviters == {1, 2, 10, 11} \cup FreshUsers
TypedCodes(profs) ==
  {NULL, BadCode} \cup { profs[p].referral_code : p \in Inviters \cap DOMAIN profs }

\* What a sign-up in flight sees: the committed profiles and its own row.
Visible(u) ==
  [ p \in DOMAIN profiles \cup {u} |->
      IF p = u THEN NewProfile(regs[u].v_referral_code, regs[u].v_referrer_code)
      ELSE profiles[p] ]

UnchangedLedger ==
  /\ UNCHANGED <<investments, earnings, referral_earnings, payment_proofs, clock,
                 uploads, calls>>
  /\ UnchangedWithdrawals

\* handle_new_user, lines 274-300: draw the code, read the metadata, insert the profile.
RegInsertProfile(u, code) ==
  /\ regs[u].pc = "idle"
  /\ code \in TypedCodes(profiles)
  /\ \E c \in generate_unique_referral_code(profiles, FreshCodes) :
       regs' = [ regs EXCEPT ![u] = [ IdleReg EXCEPT !.pc = "lookup",
                                                     !.v_referrer_code = code,
                                                     !.v_referral_code = c ] ]
  /\ UNCHANGED <<profiles, referrals>>
  /\ UnchangedLedger

\* handle_new_user, lines 303-309: resolve the referrer, who must be below the cap.
RegLookup(u) ==
  /\ regs[u].pc = "lookup"
  /\ LET id == LookupReferrer(Visible(u), regs[u].v_referrer_code)
     IN regs' = [ regs EXCEPT ![u].v_referrer_id = id,
                              ![u].pc = IF id = NULL THEN "finish" ELSE "chain" ]
  /\ UNCHANGED <<profiles, referrals>>
  /\ UnchangedLedger

\* handle_new_user, lines 310-330: walk the chain and insert the referral rows.
RegChain(u) ==
  /\ regs[u].pc = "chain"
  /\ regs' = [ regs EXCEPT ![u].rows = NewReferrals(Visible(u), regs[u].v_referrer_id, u),
                           ![u].pc = "finish" ]
  /\ UNCHANGED <<profiles, referrals>>
  /\ UnchangedLedger

\* handle_new_user, lines 333-339, and the commit (or the abort) of the sign-up.
RegFinish(u) ==
  /\ regs[u].pc = "finish"
  /\ LET res == FinishRegistration(profiles, referrals, u,
                                   NewProfile(regs[u].v_referral_code, regs[u].v_referrer_code),
                                   regs[u].v_referrer_id, regs[u].rows)
     IN /\ profiles' = res.profiles
        /\ referrals' = res.referrals
        /\ regs' = [ regs EXCEPT ![u].pc = IF res.ok THEN "committed" ELSE "aborted" ]
  /\ UnchangedLedger

NextReg ==
  \/ \E u \in FreshUsers : \E code \in {NULL, BadCode} \cup Users \cup FreshCodes :
       RegInsertProfile(u, code)
  \/ \E u \in FreshUsers : RegLookup(u)
  \/ \E u \in FreshUsers : RegChain(u)
  \/ \E u \in FreshUsers : RegFinish(u)

SpecReg == InitReg /\ [][NextReg]_vars

\* Sign-ups after account 1 has reached the cap: accounts 2..11 signed up with
\* its code, so it holds ten direct referrals.
InitCap ==
  /\ LET db == Population(11, StarShape(MaxDirectReferrals))
     IN profiles = db.profiles /\ referrals = db.referrals
  /\ investments = <<>>
  /\ earnings = EmptyBag
  /\ referral_earnings = EmptyBag
  /\ payment_proofs = EmptyBag
  /\ clock = 1
  /\ regs = [ u \in FreshUsers |-> IdleReg ]
  /\ uploads = <<>>
  /\ calls = {}
  /\ NoWithdrawals

SpecCap == InitCap /\ [][NextReg]_vars

-----------------------------------------------------------------------------
(* Updates of table profiles through the API                               *)

\* Policy "Users can update own profile": USING (auth.uid() = id), for every
\* column of the row.
MayUpdateProfile(caller, id) == caller = id

\* The constraints of table profiles on an updated row: the CHECK on
\* direct_referrals and UNIQUE on referral_code.
ProfileChecks(profs, id, row) ==
  /\ DirectReferralsCheck(row.direct_referrals)
  /\ \A p \in DOMAIN profs \ {id} : profs[p].referral_code # row.referral_code

\* UPDATE profiles SET column = value WHERE id = id, sent by caller.
UpdateOwnProfile(caller, id, column, value) ==
  /\ id \in DOMAIN profiles
  /\ MayUpdateProfile(caller, id)
  /\ ProfileChecks(profiles, id, [ profiles[id] EXCEPT ![column] = value ])
  /\ profiles' = [ profiles EXCEPT ![id][column] = value ]
  /\ UNCHANGED <<referrals, regs>>
  /\ UnchangedLedger

\* The accounts that edit their own row, and the counters they write.
ProfileEditors == {1, 11}
CounterValues == {0, 10, 11}

NextProf ==
  \/ NextReg
  \/ \E caller \in ProfileEditors : \E v \in CounterValues :
       UpdateOwnProfile(caller, caller, "direct_referrals", v)

SpecProf == InitReg /\ [][NextProf]_vars

-----------------------------------------------------------------------------
(* Investments: the insert policy, the commission fan-out trigger and      *)
(* approve_investment                                                     *)

\* The accounts of the investment scenario: A = 1 invited B = 2, B invited
\* C = 3, and account 4 signed up without a code and carries the JWT role admin.
InvShape == [ u \in ChainUsers |-> IF u \in {2, 3} THEN u - 1 ELSE 0 ]
Callers == {3, 4}

\* auth.jwt()->>'role' = 'admin'
IsAdmin(caller) == caller = 4

\* Amounts are in hundredths (DECIMAL(12,2)): the plans of 1,000 and 10,000,
\* and 0.01, the smallest amount CHECK (amount > 0) admits.
Amounts == {1, 100000, 1000000}
\* What an insert through the API sends as status and start_date: the page's
\* pending_proof, or a later status; a row inserted as active may carry a date.
InsertStates == { <<"pending_proof", NULL>>, <<"pending_approval", NULL>>,
                  <<"active", NULL>>, <<"active", 1>> }
Statuses == {"pending_proof", "pending_approval", "active", "completed", "rejected", "cancelled"}

\* n / d rounded to the nearest integer, halves away from zero (n >= 0, d > 0):
\* the rounding of a cast to DECIMAL(12,2).
RoundDiv(n, d) == (2 * n + d) \div (2 * d)

\* Table referral_levels: level -> commission_rate, in percent.
commission_rate(level) ==
  CASE level = 1 -> 10
    [] level = 2 -> 8
    [] level = 3 -> 6
    [] level = 4 -> 4
    [] OTHER -> 2

\* date_trunc('month', t), as a month number.
MonthOf(t) == t \div TicksPerMonth

\* Rows of a bag that satisfy a predicate, with their copies.
BagWhere(B, Test(_)) == [ r \in { x \in BagToSet(B) : Test(x) } |-> B[r] ]
BagMinus(B, Test(_)) == [ r \in { x \in BagToSet(B) : ~ Test(x) } |-> B[r] ]
RowsOf(B) == BagCardinality(B)

\* FanOutRows without the NOT EXISTS condition.
FanOutRowsUnfiltered(refs, re, owner) ==
  { [ referrer_id |-> r.referrer_id, referred_id |-> r.referred_id,
      level |-> r.level, commission_rate |-> commission_rate(r.level) ] :
      r \in { x \in refs : x.referred_id = owner /\ x.level \in 1..MaxLevel } }

\* The rows the cursor of process_referral_earnings returns: the referral rows
\* of the owner joined with their level's rate, without those whose
\* (referrer, referred) pair already has a commission record.
FanOutRows(refs, re, owner) ==
  { [ referrer_id |-> r.referrer_id, referred_id |-> r.referred_id,
      level |-> r.level, commission_rate |-> commission_rate(r.level) ] :
      r \in { x \in refs :
                /\ x.referred_id = owner
                /\ x.level \in 1..MaxLevel
                /\ ~ \E e \in BagToSet(re) :
                       e.referrer_id = x.referrer_id /\ e.referred_id = x.referred_id } }

\* The row the loop body inserts into referral_earnings.
CommissionRow(c, id, inv, start_date) ==
  [ referrer_id |-> c.referrer_id,
    referred_id |-> c.referred_id,
    investment_id |-> id,
    level |-> c.level,
    roi_amount |-> inv.amount,
    commission_amount |-> RoundDiv(inv.amount * c.commission_rate, 100),
    earned_at |-> start_date ]

\* UNIQUE(referrer_id, referred_id, investment_id, level) of referral_earnings.
SameCommissionKey(a, b) ==
  /\ a.referrer_id = b.referrer_id
  /\ a.referred_id = b.referred_id
  /\ a.investment_id = b.investment_id
  /\ a.level = b.level

\* FanOut with the join condition r.level = rl.level dropped (every referral
\* row meets every rate of referral_levels) and the rows written to a table
\* that has no UNIQUE constraint.
FanOutCrossJoined(refs, re, id, inv, start_date) ==
  LET rows == { CommissionRow([ c EXCEPT !.commission_rate = commission_rate(l) ],
                              id, inv, start_date) :
                  <<c, l>> \in FanOutRows(refs, re, inv.user_id) \X (1..MaxLevel) }
  IN [ ok |-> TRUE, referral_earnings |-> re (+) SetToBag(rows) ]

\* The loop FOR ... LOOP INSERT INTO referral_earnings ... END LOOP: every row
\* of the cursor is inserted; a row whose key is already in the table, or was
\* inserted earlier in the loop, raises unique_violation.
FanOut(refs, re, id, inv, start_date) ==
  LET rows == { CommissionRow(c, id, inv, start_date) :
                  c \in FanOutRows(refs, re, inv.user_id) }
      clash == \/ \E a \in rows : \E b \in BagToSet(re) : SameCommissionKey(a, b)
               \/ \E a \in rows : \E b \in rows : a # b /\ SameCommissionKey(a, b)
               \/ Cardinality(rows) # Cardinality(FanOutRows(refs, re, inv.user_id))
  IN [ ok |-> ~ clash,
       referral_earnings |-> IF clash THEN re ELSE re (+) SetToBag(rows) ]

\* process_referral_earnings with the UPDATE written without COALESCE:
\* SET first_investment_date = NEW.start_date.
process_referral_earnings_overwriting(profs, refs, re, id, inv) ==
  LET owner == inv.user_id
      first == inv.start_date
      profs2 == [ profs EXCEPT ![owner].first_investment_date = first ]
      fan == IF first # NULL THEN FanOut(refs, re, id, inv, inv.start_date)
             ELSE [ ok |-> TRUE, referral_earnings |-> re ]
  IN [ ok |-> fan.ok, profiles |-> profs2, referral_earnings |-> fan.referral_earnings ]

\* process_referral_earnings for the row NEW = (id, inv): set the owner's
\* first_investment_date if it is NULL, and fan out if it equals NEW.start_date
\* (a comparison with NULL is not true).
process_referral_earnings(profs, refs, re, id, inv) ==
  LET owner == inv.user_id
      first == IF profs[owner].first_investment_date # NULL
               THEN profs[owner].first_investment_date ELSE inv.start_date
      profs2 == [ profs EXCEPT ![owner].first_investment_date = first ]
      v_is_first_investment == first # NULL /\ inv.start_date # NULL /\ first = inv.start_date
      fan == IF v_is_first_investment THEN FanOut(refs, re, id, inv, inv.start_date)
             ELSE [ ok |-> TRUE, referral_earnings |-> re ]
  IN [ ok |-> fan.ok, profiles |-> profs2, referral_earnings |-> fan.referral_earnings ]

\* InvestmentPage.INVESTMENT_PLANS: the amounts of the plans, in hundredths.
INVESTMENT_PLANS == {100000, 200000, 500000, 1000000, 5000000, 10000000}

\* get_referral_tree(p_user_id): the referral rows that name p_user_id as
\* referrer, each with the active investments of the referred account (LEFT
\* JOIN: a row without amount when there is none) and the commission
\* amount * 0.05 * (commission_rate / 100).  The products are not rounded:
\* monthly_roi and commission are in ten-thousandths of a hundredth.
get_referral_tree(refs, invs, p_user_id) ==
  UNION { LET active == { i \in DOMAIN invs : /\ invs[i].user_id = r.referred_id
                                              /\ invs[i].status = "active" }
          IN IF active = {}
             THEN { [ referrer_id |-> r.referrer_id, referred_id |-> r.referred_id,
                      level |-> r.level, investment_amount |-> NULL,
                      monthly_roi |-> 0, commission |-> 0 ] }
             ELSE { [ referrer_id |-> r.referrer_id, referred_id |-> r.referred_id,
                      level |-> r.level, investment_amount |-> invs[i].amount,
                      monthly_roi |-> invs[i].amount * RoiPercent * 100,
                      commission |-> invs[i].amount * RoiPercent * commission_rate(r.level) ] :
                      i \in active }
          : r \in { x \in refs : x.referrer_id = p_user_id /\ x.level \in 1..MaxLevel } }

\* Dashboard.calculateCommission(level, amount): 10% of the monthly ROI for
\* level 1, 5% for levels 2..5 and 2% above, in ten-thousandths of a hundredth.
calculateCommission(level, amount) ==
  LET monthlyROI == amount * RoiPercent
  IN IF level = 1 THEN monthlyROI * 10
     ELSE IF level <= 5 THEN monthlyROI * 5
     ELSE monthlyROI * 2

\* CREATE TRIGGER process_referral_earnings_trigger AFTER INSERT ON investments
\* FOR EACH ROW WHEN (NEW.status = 'active'): the events that fire it.
TriggerFires(op, inv) == op = "INSERT" /\ inv.status = "active"

\* Policies "Users can create investments" and "Admins can manage all investments".
MayInsertInvestment(caller, inv) == caller = inv.user_id \/ IsAdmin(caller)

\* CHECK (amount > 0) and CHECK (status IN (...)) of table investments.
InvestmentChecks(inv) == inv.amount > 0 /\ inv.status \in Statuses

\* Policy "Admins can manage all investments" is the only one that lets a
\* caller UPDATE a row of investments.
MayUpdateInvestment(caller, inv) == IsAdmin(caller)

\* Policy "Create payment proofs".
MayInsertProof(caller, proof) == caller = proof.user_id

InitInv ==
  /\ LET db == Population(4, InvShape)
     IN profiles = db.profiles /\ referrals = db.referrals
  /\ investments = <<>>
  /\ earnings = EmptyBag
  /\ referral_earnings = EmptyBag
  /\ payment_proofs = EmptyBag
  /\ clock = 1
  /\ regs = [ u \in FreshUsers |-> IdleReg ]
  /\ uploads = <<>>
  /\ calls = {}
  /\ NoWithdrawals

\* The row InvestmentPage.handleInvestment sends, as the first step of
\* PaymentModal.handleUpload: status pending_proof, no dates.
FromPage(inv) == inv.status = "pending_proof" /\ inv.start_date = NULL

\* INSERT INTO investments through the API, by the page or by any other
\* client; the AFTER INSERT trigger runs in the same transaction.
InsertInvestment(caller, owner, amount, status, start_date) ==
  LET id == Cardinality(DOMAIN investments) + 1
      inv == [ user_id |-> owner, amount |-> amount, start_date |-> start_date,
               end_date |-> NULL, status |-> status ]
      trg == IF TriggerFires("INSERT", inv)
             THEN process_referral_earnings(profiles, referrals, referral_earnings, id, inv)
             ELSE [ ok |-> TRUE, profiles |-> profiles,
                    referral_earnings |-> referral_earnings ]
  IN /\ id <= MaxInvestments
     /\ owner \in DOMAIN profiles
     /\ MayInsertInvestment(caller, inv)
     /\ InvestmentChecks(inv)
     /\ trg.ok
     /\ investments' = [ i \in DOMAIN investments \cup {id} |->
                           IF i = id THEN inv ELSE investments[i] ]
     /\ profiles' = trg.profiles
     /\ referral_earnings' = trg.referral_earnings
     /\ uploads' = IF FromPage(inv)
                   THEN [ i \in DOMAIN uploads \cup {id} |->
                            IF i = id THEN "proof" ELSE uploads[i] ]
                   ELSE uploads
     /\ UNCHANGED <<referrals, earnings, payment_proofs, clock, regs, calls>>
     /\ UnchangedWithdrawals

\* PaymentModal.handleUpload, the insert into payment_proofs (status pending).
InsertPaymentProof(caller, id) ==
  LET proof == [ investment_id |-> id, user_id |-> caller, status |-> "pending" ]
  IN /\ id \in DOMAIN uploads
     /\ uploads[id] = "proof"
     /\ investments[id].user_id = caller
     /\ MayInsertProof(caller, proof)
     /\ payment_proofs' = payment_proofs (+) SetToBag({proof})
     /\ uploads' = [ uploads EXCEPT ![id] = "status" ]
     /\ UNCHANGED <<profiles, referrals, investments, earnings, referral_earnings,
                    clock, regs, calls>>
     /\ UnchangedWithdrawals

\* PaymentModal.handleUpload, the update of the status to pending_approval: it
\* changes the rows the caller's policies let the caller update, and reports
\* no error when that is none.
UpdateInvestmentStatus(caller, id) ==
  /\ id \in DOMAIN uploads
  /\ uploads[id] = "status"
  /\ investments[id].user_id = caller
  /\ uploads' = [ i \in DOMAIN uploads \ {id} |-> uploads[i] ]
  /\ investments' =
       IF MayUpdateInvestment(caller, investments[id])
       THEN [ investments EXCEPT ![id].status = "pending_approval" ]
       ELSE investments
  /\ UNCHANGED <<profiles, referrals, earnings, referral_earnings, payment_proofs,
                 clock, regs, calls>>
  /\ UnchangedWithdrawals

\* The rows approve_investment inserts into earnings for investment id.
PayoutSchedule(id, inv) ==
  { [ investment_id |-> id,
      user_id |-> inv.user_id,
      amount |-> RoundDiv(inv.amount * RoiPercent, 100),
      payout_date |-> MonthOf(inv.start_date) + k,
      status |-> "pending" ] : k \in 1..PayoutCount }

\* approve_investment without the IF p_approved around the INSERT INTO
\* earnings: a rejection schedules payouts too.
approve_investment_scheduling_always(invs, proofs, earns, p_investment_id, p_approved, now) ==
  LET invs2 == IF p_investment_id \in DOMAIN invs
               THEN [ invs EXCEPT ![p_investment_id] =
                        [ @ EXCEPT !.status = IF p_approved THEN "active" ELSE "rejected",
                                   !.start_date = IF p_approved THEN now ELSE NULL,
                                   !.end_date = IF p_approved
                                                THEN now + TermMonths * TicksPerMonth
                                                ELSE NULL ] ]
               ELSE invs
      rows == IF p_investment_id \in DOMAIN invs
              THEN PayoutSchedule(p_investment_id, invs2[p_investment_id])
              ELSE {}
  IN [ ok |-> TRUE, investments |-> invs2, payment_proofs |-> proofs,
       earnings |-> earns (+) SetToBag(rows) ]

\* approve_investment with the INSERT INTO earnings run outside the
\* transaction of the two UPDATEs: when the insert fails the UPDATEs stay.
approve_investment_keeping_updates(invs, proofs, earns, p_investment_id, p_approved, now) ==
  LET invs2 == IF p_investment_id \in DOMAIN invs
               THEN [ invs EXCEPT ![p_investment_id] =
                        [ @ EXCEPT !.status = IF p_approved THEN "active" ELSE "rejected",
                                   !.start_date = IF p_approved THEN now ELSE NULL,
                                   !.end_date = IF p_approved
                                                THEN now + TermMonths * TicksPerMonth
                                                ELSE NULL ] ]
               ELSE invs
      rows == IF p_approved /\ p_investment_id \in DOMAIN invs
              THEN PayoutSchedule(p_investment_id, invs2[p_investment_id])
              ELSE {}
      ok == \A r \in rows : r.amount > 0
  IN [ ok |-> ok, investments |-> invs2, payment_proofs |-> proofs,
       earnings |-> IF ok THEN earns (+) SetToBag(rows) ELSE earns ]

\* The body of approve_investment run on the committed tables at time now:
\* the two UPDATEs and, when approved, the INSERT into earnings (whose
\* CHECK (amount > 0) aborts the call).
approve_investment(invs, proofs, earns, p_investment_id, p_approved, now) ==
  LET invs2 == IF p_investment_id \in DOMAIN invs
               THEN [ invs EXCEPT ![p_investment_id] =
                        [ @ EXCEPT !.status = IF p_approved THEN "active" ELSE "rejected",
                                   !.start_date = IF p_approved THEN now ELSE NULL,
                                   !.end_date = IF p_approved
                                                THEN now + TermMonths * TicksPerMonth
                                                ELSE NULL ] ]
               ELSE invs
      Mine(p) == p.investment_id = p_investment_id
      decided == { [ p EXCEPT !.status = IF p_approved THEN "approved" ELSE "rejected" ] :
                     p \in BagToSet(BagWhere(proofs, Mine)) }
      proofs2 == BagMinus(proofs, Mine) (+)
                 [ d \in decided |->
                     BagCardinality(BagWhere(proofs,
                       LAMBDA p : Mine(p) /\ [ p EXCEPT !.status = d.status ] = d)) ]
      rows == IF p_approved /\ p_investment_id \in DOMAIN invs
              THEN PayoutSchedule(p_investment_id, invs2[p_investment_id])
              ELSE {}
      ok == \A r \in rows : r.amount > 0
  IN IF ok
     THEN [ ok |-> TRUE, investments |-> invs2, payment_proofs |-> proofs2,
            earnings |-> earns (+) SetToBag(rows) ]
     ELSE [ ok |-> FALSE, investments |-> invs, payment_proofs |-> proofs,
            earnings |-> earns ]

\* AdminPanel.handleApproval: the call of the function starts; its transaction
\* reads now().  The function is granted to every role and checks none.
ApproveBegin(caller, id, approved) ==
  /\ clock <= MaxClock
  /\ id \in DOMAIN investments
  /\ calls' = calls \cup { [ caller |-> caller, id |-> id, approved |-> approved,
                             now |-> clock, seen |-> investments[id].status ] }
  /\ clock' = clock + 1
  /\ UNCHANGED <<profiles, referrals, investments, earnings, referral_earnings,
                 payment_proofs, regs, uploads>>
  /\ UnchangedWithdrawals

\* The call runs and commits: its first UPDATE takes the investment's row, so
\* of two calls on one investment the second runs after the first committed.
ApproveExec(c) ==
  /\ c \in calls
  /\ LET res == approve_investment(investments, payment_proofs, earnings,
                                   c.id, c.approved, c.now)
     IN /\ investments' = res.investments
        /\ payment_proofs' = res.payment_proofs
        /\ earnings' = res.earnings
  /\ calls' = calls \ {c}
  /\ UNCHANGED <<profiles, referrals, referral_earnings, clock, regs, uploads>>
  /\ UnchangedWithdrawals

Init == InitInv

Next ==
  \/ \E caller \in Callers : \E amount \in Amounts : \E st \in InsertStates :
       InsertInvestment(caller, caller, amount, st[1], st[2])
  \/ \E caller \in Callers : \E id \in 1..MaxInvestments : InsertPaymentProof(caller, id)
  \/ \E caller \in Callers : \E id \in 1..MaxInvestments : UpdateInvestmentStatus(caller, id)
  \/ \E caller \in Callers : \E id \in 1..MaxInvestments : \E approved \in BOOLEAN :
       ApproveBegin(caller, id, approved)
  \/ \E c \in calls : ApproveExec(c)

Spec == Init /\ [][Next]_vars

\* The investments together with the updates of first_investment_date that
\* policy "Users can update own profile" admits: the owner clears the column
\* or writes a date of their choice.
DateEditors == {3}
DateValues == {NULL, 2}

NextDate ==
  \/ Next
  \/ \E caller \in DateEditors : \E v \in DateValues :
       UpdateOwnProfile(caller, caller, "first_investment_date", v)

SpecDate == Init /\ [][NextDate]_vars

\* The life of one investment over its term: an investment of 10,000 of
\* account 3 is pending_approval; calls of approve_investment approve it, and
\* time passes until the term of an approval made by the last possible call
\* is over.
InitTerm ==
  /\ LET db == Population(4, InvShape)
     IN profiles = db.profiles /\ referrals = db.referrals
  /\ investments = [ i \in {1} |-> [ user_id |-> 3, amount |-> 1000000,
                                     start_date |-> NULL, end_date |-> NULL,
                                     status |-> "pending_approval" ] ]
  /\ earnings = EmptyBag
  /\ referral_earnings = EmptyBag
  /\ payment_proofs = EmptyBag
  /\ clock = 1
  /\ regs = [ u \in FreshUsers |-> IdleReg ]
  /\ uploads = <<>>
  /\ calls = {}
  /\ NoWithdrawals

\* Time passes: now() returns a later time.  The times after the end of every
\* term are told apart by two values only, so that time never stops.
Tick ==
  /\ clock' = IF clock <= MaxClock + TermMonths * TicksPerMonth + 1
              THEN clock + 1 ELSE clock - 1
  /\ UNCHANGED <<profiles, referrals, investments, earnings, referral_earnings,
                 payment_proofs, regs, uploads, calls>>
  /\ UnchangedWithdrawals

NextTerm ==
  \/ \E caller \in Callers : \E id \in 1..MaxInvestments : ApproveBegin(caller, id, TRUE)
  \/ \E c \in calls : ApproveExec(c)
  \/ Tick

\* A call that started runs to its end, and time never stops.
SpecTerm ==
  /\ InitTerm
  /\ [][NextTerm]_vars
  /\ WF_vars(\E c \in calls : ApproveExec(c))
  /\ WF_vars(Tick)

-----------------------------------------------------------------------------
(* Withdrawals: check_withdrawal_eligibility, the insert policy of table   *)
(* withdrawals and WithdrawalsPage.handleWithdrawal                        *)

\* The owner who requests withdrawals (account C of the investment scenario).
WdUsers == {3}

\* Requested amounts, in hundredths: 500, 5,000, 10,000, 12,000 and 200,000.
WdAmounts == {50000, 500000, 1000000, 1200000, 20000000}

\* Rows of withdrawal_settings: the default one, one with higher limits and
\* one that keeps a balance of 2,000.
SettingsChoices ==
  { DefaultSettings,
    [ DefaultSettings EXCEPT !.min_withdrawal_amount = 500000,
                             !.max_withdrawal_amount = 1000000 ],
    [ DefaultSettings EXCEPT !.min_balance_required = 200000 ] }

WithdrawalStatuses == {"pending", "processing", "completed", "rejected", "cancelled"}

\* COALESCE(SUM(amount), 0) over the rows of a bag.
RECURSIVE SumOver(_, _)
SumOver(rows, B) ==
  IF rows = {} THEN 0
  ELSE LET r == CHOOSE x \in rows : TRUE
       IN r.amount * B[r] + SumOver(rows \ {r}, B)

SumAmounts(B) == SumOver(BagToSet(B), B)

BelowMinimum == "Amount is below minimum withdrawal limit"
AboveMaximum == "Amount exceeds maximum withdrawal limit"
InsufficientBalance == "Insufficient available balance"
Eligible == "Withdrawal request eligible"

\* check_withdrawal_eligibility with the balance test written <= instead of <.
check_withdrawal_eligibility_floor_inclusive(earns, wds, v_settings, p_user_id, p_amount) ==
  LET v_total_earnings ==
        SumAmounts(BagWhere(earns, LAMBDA e : e.user_id = p_user_id /\ e.status = "paid"))
      v_pending_withdrawals ==
        SumAmounts(BagWhere(wds, LAMBDA w : /\ w.user_id = p_user_id
                                            /\ w.status \in {"pending", "processing"}))
  IN IF p_amount < v_settings.min_withdrawal_amount
     THEN [ eligible |-> FALSE, message |-> BelowMinimum ]
     ELSE IF p_amount > v_settings.max_withdrawal_amount
     THEN [ eligible |-> FALSE, message |-> AboveMaximum ]
     ELSE IF (v_total_earnings - v_pending_withdrawals - p_amount)
               <= v_settings.min_balance_required
     THEN [ eligible |-> FALSE, message |-> InsufficientBalance ]
     ELSE [ eligible |-> TRUE, message |-> Eligible ]

\* check_withdrawal_eligibility: the two sums, then the three tests in order.
check_withdrawal_eligibility(earns, wds, v_settings, p_user_id, p_amount) ==
  LET v_total_earnings ==
        SumAmounts(BagWhere(earns, LAMBDA e : e.user_id = p_user_id /\ e.status = "paid"))
      v_pending_withdrawals ==
        SumAmounts(BagWhere(wds, LAMBDA w : /\ w.user_id = p_user_id
                                            /\ w.status \in {"pending", "processing"}))
  IN IF p_amount < v_settings.min_withdrawal_amount
     THEN [ eligible |-> FALSE, message |-> BelowMinimum ]
     ELSE IF p_amount > v_settings.max_withdrawal_amount
     THEN [ eligible |-> FALSE, message |-> AboveMaximum ]
     ELSE IF (v_total_earnings - v_pending_withdrawals - p_amount)
               < v_settings.min_balance_required
     THEN [ eligible |-> FALSE, message |-> InsufficientBalance ]
     ELSE [ eligible |-> TRUE, message |-> Eligible ]

\* WithdrawalsPage.fetchData, the statistics the page shows to profile_id:
\* the completed withdrawals, the pending and processing ones, and the paid
\* earnings minus both.
fetchData(earns, wds, profile_id) ==
  LET totalWithdrawn ==
        SumAmounts(BagWhere(wds, LAMBDA w : w.user_id = profile_id /\ w.status = "completed"))
      pendingAmount ==
        SumAmounts(BagWhere(wds, LAMBDA w : /\ w.user_id = profile_id
                                            /\ w.status \in {"pending", "processing"}))
      totalEarnings ==
        SumAmounts(BagWhere(earns, LAMBDA e : e.user_id = profile_id /\ e.status = "paid"))
  IN [ total_withdrawn |-> totalWithdrawn,
       pending_amount |-> pendingAmount,
       available_balance |-> totalEarnings - totalWithdrawn - pendingAmount ]

\* The settlement job, which is not part of the repository: the earnings
\* rows whose payout month is at most n are paid.
Settled(earns, n) ==
  BagOfAll(LAMBDA e : IF e.payout_date <= n THEN [ e EXCEPT !.status = "paid" ] ELSE e,
           earns)

\* Months settled in the initial state: none, or 20 (20 x 500 = 10,000 paid).
PaidMonths == {0, 20}

\* The owner's investment of 10,000 was approved at time 1 and PaidMonths of
\* its schedule are settled; the owner's bank account is on file, verified or not.
InitWd ==
  /\ LET db == Population(4, InvShape)
     IN profiles = db.profiles /\ referrals = db.referrals
  /\ \E n \in PaidMonths :
       LET requested == [ i \in {1} |-> [ user_id |-> 3, amount |-> 1000000,
                                          start_date |-> NULL, end_date |-> NULL,
                                          status |-> "pending_approval" ] ]
           res == approve_investment(requested, EmptyBag, EmptyBag, 1, TRUE, 1)
       IN /\ investments = res.investments
          /\ earnings = Settled(res.earnings, n)
  /\ referral_earnings = EmptyBag
  /\ payment_proofs = EmptyBag
  /\ clock = 2
  /\ regs = [ u \in FreshUsers |-> IdleReg ]
  /\ uploads = <<>>
  /\ calls = {}
  /\ withdrawals = EmptyBag
  /\ withdrawal_settings \in SettingsChoices
  /\ \E v \in BOOLEAN : bank_details = [ u \in WdUsers |-> [ verified |-> v ] ]
  /\ tabs = [ t \in 1..NumTabs |-> IdleTab ]

\* Policies "Users can create withdrawal requests" and "Admins can manage all
\* withdrawals".
MayInsertWithdrawal(caller, row) == caller = row.user_id \/ IsAdmin(caller)

\* CHECK (amount > 0), CHECK (status IN (...)) and the foreign key to
\* bank_details of table withdrawals.
WithdrawalChecks(row) ==
  /\ row.amount > 0
  /\ row.status \in WithdrawalStatuses
  /\ row.bank_details_id \in DOMAIN bank_details

UnchangedByWithdrawals ==
  UNCHANGED <<profiles, referrals, investments, earnings, referral_earnings,
              payment_proofs, clock, regs, uploads, calls>>

\* handleWithdrawal up to the eligibility call: the page holds the owner's
\* verified bank account (fetchData), calls check_withdrawal_eligibility and
\* goes on to the insert only when the answer is eligible.
WdCheck(t, u, amount) ==
  /\ tabs[t].pc = "idle"
  /\ u \in DOMAIN bank_details
  /\ bank_details[u].verified
  /\ LET res == check_withdrawal_eligibility(earnings, withdrawals, withdrawal_settings,
                                             u, amount)
     IN tabs' = [ tabs EXCEPT ![t] =
                    IF res.eligible
                    THEN [ pc |-> "insert", user_id |-> u, amount |-> amount,
                           bank_details_id |-> u ]
                    ELSE IdleTab ]
  /\ UNCHANGED <<withdrawals, withdrawal_settings, bank_details>>
  /\ UnchangedByWithdrawals

\* INSERT INTO withdrawals through the API.
InsertWithdrawal(caller, row) ==
  /\ RowsOf(withdrawals) < MaxWithdrawals
  /\ MayInsertWithdrawal(caller, row)
  /\ WithdrawalChecks(row)
  /\ withdrawals' = withdrawals (+) SetToBag({row})

\* handleWithdrawal, the insert of the request with status pending.
WdInsert(t) ==
  /\ tabs[t].pc = "insert"
  /\ InsertWithdrawal(tabs[t].user_id,
                      [ user_id |-> tabs[t].user_id, amount |-> tabs[t].amount,
                        bank_details_id |-> tabs[t].bank_details_id,
                        status |-> "pending", processed_at |-> NULL ])
  /\ tabs' = [ tabs EXCEPT ![t] = IdleTab ]
  /\ UNCHANGED <<withdrawal_settings, bank_details>>
  /\ UnchangedByWithdrawals

\* An insert into withdrawals by a client other than the page: the policy
\* checks the row's user_id and nothing else.
WdInsertDirect(caller, amount, status) ==
  /\ caller \in DOMAIN bank_details
  /\ InsertWithdrawal(caller,
                      [ user_id |-> caller, amount |-> amount, bank_details_id |-> caller,
                        status |-> status, processed_at |-> NULL ])
  /\ UNCHANGED <<withdrawal_settings, bank_details, tabs>>
  /\ UnchangedByWithdrawals

\* process_withdrawal without the test of the caller's role.
process_withdrawal_unguarded(wds, caller, w, p_status, now) ==
  LET row == [ w EXCEPT !.status = p_status,
                        !.processed_at = IF p_status \in {"completed", "rejected"}
                                         THEN now ELSE NULL ]
  IN IF p_status \notin WithdrawalStatuses
     THEN [ ok |-> FALSE, withdrawals |-> wds ]
     ELSE [ ok |-> TRUE, withdrawals |-> (wds (-) SetToBag({w})) (+) SetToBag({row}) ]

\* process_withdrawal called by caller for the row w at time now: it raises
\* for a caller who is not an administrator, and otherwise sets the status
\* and recomputes processed_at (the CHECK on status aborts the call).
process_withdrawal(wds, caller, w, p_status, now) ==
  LET row == [ w EXCEPT !.status = p_status,
                        !.processed_at = IF p_status \in {"completed", "rejected"}
                                         THEN now ELSE NULL ]
  IN IF ~ IsAdmin(caller) \/ p_status \notin WithdrawalStatuses
     THEN [ ok |-> FALSE, withdrawals |-> wds ]
     ELSE [ ok |-> TRUE, withdrawals |-> (wds (-) SetToBag({w})) (+) SetToBag({row}) ]

\* A call of process_withdrawal on a row of the table.
ProcessWithdrawal(caller, w, p_status) ==
  /\ w \in BagToSet(withdrawals)
  /\ withdrawals' = process_withdrawal(withdrawals, caller, w, p_status, clock).withdrawals
  /\ UNCHANGED <<withdrawal_settings, bank_details, tabs>>
  /\ UnchangedByWithdrawals

\* MayUpdateWithdrawal with the owner's policy written without status = 'pending'.
MayUpdateWithdrawalAnyStatus(caller, w) == caller = w.user_id \/ IsAdmin(caller)

\* USING of the policies "Users can cancel pending withdrawals" and "Admins
\* can manage all withdrawals": the rows an UPDATE of the caller reaches.
MayUpdateWithdrawal(caller, w) ==
  (caller = w.user_id /\ w.status = "pending") \/ IsAdmin(caller)

\* WITH CHECK of the same two policies: the rows an UPDATE may leave.
MayLeaveWithdrawal(caller, row) ==
  (caller = row.user_id /\ row.status = "cancelled") \/ IsAdmin(caller)

\* UPDATE withdrawals SET ... WHERE id = w.id through the API: a row the
\* caller's policies do not reach is not updated, and a new row that fails
\* WITH CHECK or a constraint aborts the statement.
update_withdrawal(wds, caller, w, row) ==
  IF MayUpdateWithdrawal(caller, w) /\ MayLeaveWithdrawal(caller, row) /\ WithdrawalChecks(row)
  THEN (wds (-) SetToBag({w})) (+) SetToBag({row})
  ELSE wds

UpdateWithdrawal(caller, w, status) ==
  /\ w \in BagToSet(withdrawals)
  /\ withdrawals' = update_withdrawal(withdrawals, caller, w, [ w EXCEPT !.status = status ])
  /\ UNCHANGED <<withdrawal_settings, bank_details, tabs>>
  /\ UnchangedByWithdrawals

\* The accounts that send updates of withdrawals through the API (the owner
\* and another account), and the statuses they and the administrator write.
WdUpdaters == {2, 3}
OwnerWrites == {"cancelled", "completed"}
AdminWrites == {"pending", "processing", "completed", "rejected"}

NextWd ==
  \/ \E t \in 1..NumTabs : \E u \in WdUsers : \E amount \in WdAmounts : WdCheck(t, u, amount)
  \/ \E t \in 1..NumTabs : WdInsert(t)
  \/ \E caller \in WdUsers : \E status \in {"pending", "processing", "completed"} :
       WdInsertDirect(caller, 1200000, status)
  \/ \E caller \in Callers : \E w \in BagToSet(withdrawals) : \E status \in AdminWrites :
       ProcessWithdrawal(caller, w, status)
  \/ \E caller \in WdUpdaters : \E w \in BagToSet(withdrawals) : \E status \in OwnerWrites :
       UpdateWithdrawal(caller, w, status)

SpecWd == InitWd /\ [][NextWd]_vars

\* The owner requests withdrawals on one page only, one request at a time
\* and each after its eligibility call; the administrator processes them and
\* the owner cancels pending ones.
NextPage ==
  \/ \E u \in WdUsers : \E amount \in WdAmounts : WdCheck(1, u, amount)
  \/ WdInsert(1)
  \/ \E caller \in Callers : \E w \in BagToSet(withdrawals) : \E status \in AdminWrites :
       ProcessWithdrawal(caller, w, status)
  \/ \E caller \in WdUpdaters : \E w \in BagToSet(withdrawals) : \E status \in OwnerWrites :
       UpdateWithdrawal(caller, w, status)

SpecPage == InitWd /\ [][NextPage]_vars

-----------------------------------------------------------------------------
(* Properties *)

EdgesOf(u) == { r \in referrals : r.referred_id = u }
EarningsOf(id) == BagWhere(earnings, LAMBDA e : e.investment_id = id)
ProofsOf(id) == BagWhere(payment_proofs, LAMBDA p : p.investment_id = id)
CommissionsOf(id) == BagWhere(referral_earnings, LAMBDA e : e.investment_id = id)
CommissionsNaming(re, owner) == BagWhere(re, LAMBDA e : e.referred_id = owner)

\* The account that holds a referral code, or NULL.
Holder(code) ==
  LET m == { p \in DOMAIN profiles : profiles[p].referral_code = code }
  IN IF code = NULL \/ m = {} THEN NULL ELSE CHOOSE p \in m : TRUE

\* The upward chain of account p: p, the holder of the code p signed up with,
\* and so on, at most n accounts.
RECURSIVE Upline(_, _)
Upline(p, n) ==
  IF n = 0 \/ p = NULL THEN <<>>
  ELSE <<p>> \o Upline(Holder(profiles[p].referrer_code), n - 1)

\* The calls of approve_investment that run and commit in the step.
Executes(c) == c \in calls /\ c \notin calls'

\* C1: under every interleaving of concurrent sign-ups that name the same
\* inviter, no account's direct-referral counter exceeds 10.
C1_CounterWithinCap ==
  \A p \in DOMAIN profiles : profiles[p].direct_referrals <= MaxDirectReferrals

\* Two sign-ups raced for the inviter's last slot: both resolved the inviter,
\* one committed, the other was aborted, and the counter stands at 10.
C1_Witness ==
  \E u, w \in FreshUsers :
    /\ regs[u].pc = "committed" /\ regs[w].pc = "aborted"
    /\ regs[u].v_referrer_id # NULL
    /\ regs[u].v_referrer_id = regs[w].v_referrer_id
    /\ regs[u].v_referral_code # regs[w].v_referral_code
    /\ profiles[regs[u].v_referrer_id].direct_referrals = MaxDirectReferrals

\* C2: the approval of the first investment of an owner who has referral
\* edges leaves, in the state right after it, exactly one commission record
\* per referral edge of the owner for that investment.
C2_ApprovalFansOut ==
  [][ \A c \in calls :
        LET owner == investments[c.id].user_id
        IN ( /\ Executes(c)
             /\ c.approved
             /\ IsAdmin(c.caller)
             /\ investments[c.id].status = "pending_approval"
             /\ investments'[c.id].status = "active"
             /\ profiles[owner].first_investment_date = NULL
             /\ \A i \in DOMAIN investments :
                  investments[i].user_id = owner =>
                    investments[i].status \notin {"active", "completed"}
             /\ EdgesOf(owner) # {} )
           => \A r \in EdgesOf(owner) :
                RowsOf(BagWhere(referral_earnings',
                         LAMBDA e : /\ e.referrer_id = r.referrer_id
                                    /\ e.referred_id = owner
                                    /\ e.investment_id = c.id
                                    /\ e.level = r.level)) = 1 ]_vars

\* C3: no two commission records share the same (ancestor, descendant,
\* investment, level).
C3_CommissionKeyUnique ==
  \A e \in BagToSet(referral_earnings) :
    RowsOf(BagWhere(referral_earnings, LAMBDA x : SameCommissionKey(x, e))) = 1

\* The fan-out was entered twice for one owner: two investments of the owner
\* were inserted as active with the date that is the owner's first
\* investment date, and commission records exist.
C3_Witness ==
  \E i, j \in DOMAIN investments :
    /\ i # j
    /\ investments[i].user_id = investments[j].user_id
    /\ investments[i].start_date = profiles[investments[i].user_id].first_investment_date
    /\ investments[j].start_date = investments[i].start_date
    /\ investments[i].start_date # NULL
    /\ RowsOf(CommissionsNaming(referral_earnings, investments[i].user_id)) >= 2

\* C4: running process_referral_earnings again for an investment that has
\* commission records succeeds and changes no table.
C4_FanOutIdempotent ==
  \A i \in DOMAIN investments :
    CommissionsOf(i) # EmptyBag =>
      LET again == process_referral_earnings(profiles, referrals, referral_earnings,
                                             i, investments[i])
      IN /\ again.ok
         /\ again.profiles = profiles
         /\ again.referral_earnings = referral_earnings

\* An investment has commission records and still carries the date that made
\* it the first one, so that a second run enters the fan-out loop's query.
C4_Witness ==
  \E i \in DOMAIN investments :
    /\ RowsOf(CommissionsOf(i)) = 2
    /\ investments[i].start_date = profiles[investments[i].user_id].first_investment_date

\* C5: once commission records name an owner as descendant, no step writes
\* another record naming that owner (neither for a later investment nor for
\* the first), so all of them are for one investment, the one that fanned out.
C5_FanOutOncePerOwner ==
  [][ \A o \in DOMAIN profiles :
        /\ CommissionsNaming(referral_earnings, o) # EmptyBag =>
             CommissionsNaming(referral_earnings', o) = CommissionsNaming(referral_earnings, o)
        /\ \A a, b \in BagToSet(CommissionsNaming(referral_earnings', o)) :
             a.investment_id = b.investment_id ]_vars

\* An owner's later investment was activated with the first one's date after
\* the first one fanned out: the first has the records, the later one none.
C5_Witness ==
  \E i, j \in DOMAIN investments :
    /\ i < j
    /\ investments[i].user_id = investments[j].user_id
    /\ investments[j].status = "active"
    /\ investments[j].start_date = profiles[investments[j].user_id].first_investment_date
    /\ RowsOf(CommissionsOf(i)) = 2
    /\ CommissionsOf(j) = EmptyBag

\* C6: an investment that has earnings rows has exactly 40 of them, one per
\* month for the 40 months after the month of its start date, each of 5% of
\* its amount and pending, whatever calls of approve_investment were made.
C6_FortyEarnings ==
  \A i \in DOMAIN investments :
    EarningsOf(i) # EmptyBag =>
      /\ RowsOf(EarningsOf(i)) = PayoutCount
      /\ \A e \in BagToSet(EarningsOf(i)) :
           /\ e.amount = RoundDiv(investments[i].amount * RoiPercent, 100)
           /\ e.status = "pending"

C8_DecidedStaysDecided ==
  [][ \A c \in calls :
        ( /\ Executes(c)
          /\ c.seen \in {"active", "rejected"}
          /\ investments[c.id].status = c.seen )
        => /\ investments'[c.id] = investments[c.id]
           /\ payment_proofs' = payment_proofs
           /\ earnings' = earnings ]_vars

\* C9: of two calls made on the same pending_approval investment only one
\* takes effect: the call that runs after the other one decided the
\* investment changes nothing.
C9_StaleDecisionFails ==
  [][ \A c \in calls :
        ( /\ Executes(c)
          /\ c.seen = "pending_approval"
          /\ investments[c.id].status \in {"active", "rejected"} )
        => /\ investments' = investments
           /\ payment_proofs' = payment_proofs
           /\ earnings' = earnings ]_vars

\* C10: a call of approve_investment by a caller who is not an administrator
\* changes nothing.
C10_AdminOnly ==
  [][ \A c \in calls :
        (Executes(c) /\ ~ IsAdmin(c.caller))
        => /\ investments' = investments
           /\ payment_proofs' = payment_proofs
           /\ earnings' = earnings ]_vars

\* C11: a rejecting call of approve_investment that runs on a pending_approval
\* investment moves it to rejected, creates no earnings row and no commission
\* record, and leaves every profile (the owner's first_investment_date
\* included) as it was.
C11_RejectionOnlyRejects ==
  [][ \A c \in calls :
        ( /\ Executes(c)
          /\ ~ c.approved
          /\ investments[c.id].status = "pending_approval" )
        => /\ investments'[c.id].status = "rejected"
           /\ \A i \in DOMAIN investments : i # c.id => investments'[i] = investments[i]
           /\ earnings' = earnings
           /\ referral_earnings' = referral_earnings
           /\ profiles' = profiles
           /\ referrals' = referrals ]_vars

\* An investment that went through the page (proof stored, status set to
\* pending_approval by its upload) was rejected: it is rejected, its proof is
\* rejected, and it has no earnings row.
C11_Witness ==
  \E i \in DOMAIN investments :
    /\ investments[i].status = "rejected"
    /\ IsAdmin(investments[i].user_id)
    /\ i \notin DOMAIN uploads
    /\ ProofsOf(i) # EmptyBag
    /\ \A p \in BagToSet(ProofsOf(i)) : p.status = "rejected"
    /\ EarningsOf(i) = EmptyBag

\* C12: an approving call of approve_investment either takes effect as a
\* whole (the investment active from the call's time, its proofs approved,
\* 40 more earnings rows) or changes nothing; and in every state the earnings
\* rows of an investment come in whole schedules of 40 and the commission
\* records of an investment cover every referral edge of its owner or none.
C12_ApprovalAllOrNothing ==
  /\ [](\A i \in DOMAIN investments :
          /\ RowsOf(EarningsOf(i)) % PayoutCount = 0
          /\ CommissionsOf(i) # EmptyBag =>
               \A r \in EdgesOf(investments[i].user_id) :
                 \E e \in BagToSet(CommissionsOf(i)) :
                   e.referrer_id = r.referrer_id /\ e.level = r.level)
  /\ [][ \A c \in calls :
          (Executes(c) /\ c.approved) =>
            \/ /\ investments'[c.id].status = "active"
               /\ investments'[c.id].start_date = c.now
               /\ RowsOf(BagWhere(earnings', LAMBDA e : e.investment_id = c.id))
                    = RowsOf(EarningsOf(c.id)) + PayoutCount
               /\ \A p \in BagToSet(BagWhere(payment_proofs',
                                              LAMBDA q : q.investment_id = c.id)) :
                    p.status = "approved"
            \/ /\ investments' = investments
               /\ payment_proofs' = payment_proofs
               /\ earnings' = earnings
               /\ referral_earnings' = referral_earnings
               /\ profiles' = profiles ]_vars

\* The only investment, of 0.01 and inserted as pending_approval, was the
\* target of the one call made, an approval whose earnings rows of 0.00 fail
\* CHECK (amount > 0): it is still pending_approval, without dates or rows.
C12_Witness ==
  /\ DOMAIN investments = {1}
  /\ investments[1].amount = 1
  /\ investments[1].status = "pending_approval"
  /\ investments[1].start_date = NULL
  /\ 1 \notin DOMAIN uploads
  /\ ProofsOf(1) = EmptyBag
  /\ EarningsOf(1) = EmptyBag
  /\ clock = 2
  /\ calls = {}

\* The sum of an owner's paid earnings, and of the owner's pending and
\* processing withdrawals.
PaidEarnings(u) ==
  SumAmounts(BagWhere(earnings, LAMBDA e : e.user_id = u /\ e.status = "paid"))
OpenWithdrawals(u) ==
  SumAmounts(BagWhere(withdrawals, LAMBDA w : /\ w.user_id = u
                                              /\ w.status \in {"pending", "processing"}))

\* C13: for every owner and amount, in every state of the tables and the
\* settings, check_withdrawal_eligibility answers eligible exactly when the
\* amount is within the limits and the paid earnings minus the pending and
\* processing withdrawals minus the amount is not below the required balance;
\* otherwise its reason is that of the first violated test (minimum, maximum,
\* balance), the three reasons being distinct; with 10,000 paid, no
\* withdrawal and the default settings 12,000 is refused and 5,000 accepted.
C13_EligibilityAsSpecified ==
  /\ Cardinality({BelowMinimum, AboveMaximum, InsufficientBalance}) = 3
  /\ \A u \in WdUsers : \A a \in WdAmounts :
       LET res == check_withdrawal_eligibility(earnings, withdrawals, withdrawal_settings, u, a)
           st == withdrawal_settings
           lowOk == a >= st.min_withdrawal_amount
           highOk == a <= st.max_withdrawal_amount
           balOk == PaidEarnings(u) - OpenWithdrawals(u) - a >= st.min_balance_required
       IN /\ res.eligible <=> (lowOk /\ highOk /\ balOk)
          /\ ~ res.eligible =>
               res.message = IF ~ lowOk THEN BelowMinimum
                             ELSE IF ~ highOk THEN AboveMaximum
                             ELSE InsufficientBalance
  /\ \A u \in WdUsers :
       ( /\ PaidEarnings(u) = 1000000
         /\ OpenWithdrawals(u) = 0
         /\ withdrawal_settings = DefaultSettings )
       => /\ ~ check_withdrawal_eligibility(earnings, withdrawals, withdrawal_settings,
                                            u, 1200000).eligible
          /\ check_withdrawal_eligibility(earnings, withdrawals, withdrawal_settings,
                                          u, 500000).eligible

\* With 10,000 paid, no withdrawal and the default settings, a page asked
\* for 5,000 and was told eligible, and a request of 12,000 is refused for
\* its balance.
C13_Witness ==
  /\ PaidEarnings(3) = 1000000
  /\ withdrawals = EmptyBag
  /\ withdrawal_settings = DefaultSettings
  /\ \E t \in 1..NumTabs : tabs[t].pc = "insert" /\ tabs[t].amount = 500000
  /\ check_withdrawal_eligibility(earnings, withdrawals, withdrawal_settings,
                                  3, 1200000).message = InsufficientBalance

\* C14: a withdrawal that handleWithdrawal inserts after its eligibility call
\* succeeded is pending and names a verified bank account, and the insert
\* never takes the owner's paid earnings minus pending and processing
\* withdrawals from at or above min_balance_required to below it, whatever
\* the owner's other pages did between the call and the insert.
C14_ChecksHoldAtInsert ==
  [][ \A t \in 1..NumTabs :
        LET u == tabs[t].user_id
            open2 == SumAmounts(BagWhere(withdrawals',
                                         LAMBDA w : /\ w.user_id = u
                                                    /\ w.status \in {"pending", "processing"}))
        IN ( /\ tabs[t].pc = "insert"
             /\ tabs'[t].pc = "idle"
             /\ PaidEarnings(u) - OpenWithdrawals(u) >= withdrawal_settings.min_balance_required )
           => /\ \A w \in BagToSet(withdrawals') :
                   withdrawals'[w] > (IF w \in BagToSet(withdrawals) THEN withdrawals[w] ELSE 0)
                     => w.status = "pending" /\ bank_details[w.bank_details_id].verified
              /\ PaidEarnings(u) - open2 >= withdrawal_settings.min_balance_required ]_vars

\* C15: every commission record a step writes has the investment's amount as
\* base and amount x rate(level) / 100 (to the cent) as commission, the rates
\* being 10, 8, 6, 4 for levels 1..4 and 2 for levels 5..10; and in the chain
\* A = 1 <- B = 2 <- C = 3 the approval of C's first investment of 10,000
\* leaves exactly two records for it: B at level 1 with 1,000 and A at level 2
\* with 800.
C15_CommissionAmounts ==
  [][ /\ \A e \in BagToSet(referral_earnings') :
           e \notin BagToSet(referral_earnings) =>
             LET rate == IF e.level <= 4 THEN 12 - 2 * e.level ELSE 2
                 a == investments'[e.investment_id].amount
                 d == 100 * e.commission_amount - a * rate
             IN /\ e.roi_amount = a
                /\ 2 * d <= 100 /\ 2 * d > -100
      /\ \A c \in calls :
           ( /\ Executes(c)
             /\ c.approved
             /\ investments[c.id].user_id = 3
             /\ investments[c.id].amount = 1000000
             /\ investments[c.id].status = "pending_approval"
             /\ investments'[c.id].status = "active"
             /\ profiles[3].first_investment_date = NULL
             /\ \A i \in DOMAIN investments :
                  investments[i].status \notin {"active", "completed"} )
           => LET written == BagWhere(referral_earnings', LAMBDA e : e.investment_id = c.id)
              IN /\ RowsOf(written) = 2
                 /\ \E e \in BagToSet(written) :
                      /\ e.referrer_id = 2 /\ e.referred_id = 3 /\ e.level = 1
                      /\ e.roi_amount = 1000000 /\ e.commission_amount = 100000
                 /\ \E e \in BagToSet(written) :
                      /\ e.referrer_id = 1 /\ e.referred_id = 3 /\ e.level = 2
                      /\ e.roi_amount = 1000000 /\ e.commission_amount = 80000 ]_vars

\* C16: a sign-up whose inviter code fails (it resolved to nobody, or to an
\* inviter already at the cap, or the inviter's last slot was taken by a
\* concurrent sign-up before this one finished) still commits: the account
\* exists with its own referral code, has no referral edge, and no counter
\* changed.
C16_ReferralFailureNeverBlocks ==
  [][ \A u \in FreshUsers :
        LET r == regs[u]
            failed == /\ r.v_referrer_code # NULL
                      /\ \/ r.v_referrer_id = NULL
                         \/ profiles[r.v_referrer_id].direct_referrals >= MaxDirectReferrals
            codeFree == \A p \in DOMAIN profiles : profiles[p].referral_code # r.v_referral_code
        IN (r.pc = "finish" /\ regs'[u].pc # "finish" /\ failed /\ codeFree)
           => /\ regs'[u].pc = "committed"
              /\ u \in DOMAIN profiles'
              /\ profiles'[u].referral_code = r.v_referral_code
              /\ ~ \E e \in referrals' : e.referred_id = u
              /\ \A p \in DOMAIN profiles :
                   profiles'[p].direct_referrals = profiles[p].direct_referrals ]_vars

\* C17: a sign-up that commits attached to an inviter raises that inviter's
\* direct_referrals by exactly one and changes no other counter, and in every
\* state each account's direct_referrals equals the number of level-1
\* referral rows that name it as referrer.
C17_CounterCountsDirectEdges ==
  /\ [](\A p \in DOMAIN profiles :
          profiles[p].direct_referrals =
            Cardinality({ r \in referrals : r.referrer_id = p /\ r.level = 1 }))
  /\ [][ \A u \in FreshUsers :
          (regs[u].pc = "finish" /\ regs'[u].pc = "committed" /\ regs[u].v_referrer_id # NULL)
          => \A p \in DOMAIN profiles :
               profiles'[p].direct_referrals =
                 profiles[p].direct_referrals + (IF p = regs[u].v_referrer_id THEN 1 ELSE 0) ]_vars

\* C18: under every interleaving of concurrent sign-ups no two accounts hold
\* the same referral code.
C18_ReferralCodesUnique ==
  \A p, q \in DOMAIN profiles :
    profiles[p].referral_code = profiles[q].referral_code => p = q

\* Two concurrent sign-ups drew the same code, neither seeing the other's
\* row: one committed with it, and the other, which named no inviter, was
\* aborted.
C18_Witness ==
  \E u, w \in FreshUsers :
    /\ u # w
    /\ regs[u].pc = "committed" /\ regs[w].pc = "aborted"
    /\ regs[u].v_referral_code = regs[w].v_referral_code
    /\ regs[w].v_referrer_code = NULL
    /\ profiles[u].referral_code = regs[w].v_referral_code

\* C19: every row that a step adds to table investments has a strictly
\* positive amount and the status pending_proof.
C19_CreatedAsPendingProof ==
  [][ \A i \in DOMAIN investments' \ DOMAIN investments :
        /\ investments'[i].amount > 0
        /\ investments'[i].status = "pending_proof" ]_vars

\* C20: the status update at the end of PaymentModal.handleUpload changes an
\* investment's status only from pending_proof, only to pending_approval, and
\* only when a payment-proof row of the investment is stored.
C20_SubmitOnlyFromPendingProof ==
  [][ \A id \in DOMAIN uploads :
        ( /\ uploads[id] = "status"
          /\ id \notin DOMAIN uploads'
          /\ investments'[id].status # investments[id].status )
        => /\ investments[id].status = "pending_proof"
           /\ investments'[id].status = "pending_approval"
           /\ ProofsOf(id) # EmptyBag ]_vars

\* C21: in every step an investment's status changes only along
\* pending_proof -> pending_approval, pending_approval -> active or rejected,
\* pending_proof or pending_approval -> cancelled, and active -> completed; in
\* particular a rejected or cancelled investment never changes status again.
C21_StatusTransitions ==
  [][ LET allowed == { <<"pending_proof", "pending_approval">>,
                       <<"pending_approval", "active">>,
                       <<"pending_approval", "rejected">>,
                       <<"pending_proof", "cancelled">>,
                       <<"pending_approval", "cancelled">>,
                       <<"active", "completed">> }
      IN \A i \in DOMAIN investments :
           investments'[i].status # investments[i].status =>
             <<investments[i].status, investments'[i].status>> \in allowed ]_vars

\* C22: an account's first_investment_date is set exactly once, to the start
\* date of the owner's first activated investment: a step that activates an
\* investment of an owner who has no date sets it to that investment's start
\* date, a step that sets it sets it to the start date of an investment of the
\* owner that is then active, and once set no step changes it.
C22_FirstDateSetOnce ==
  [][ \A o \in DOMAIN profiles :
        LET old == profiles[o].first_investment_date
            new == profiles'[o].first_investment_date
            activated == { i \in DOMAIN investments' :
                             /\ investments'[i].user_id = o
                             /\ investments'[i].status = "active"
                             /\ investments'[i].start_date # NULL
                             /\ \/ i \notin DOMAIN investments
                                \/ investments[i].status # "active" }
        IN /\ old # NULL => new = old
           /\ (old = NULL /\ new # NULL) =>
                \E i \in activated : investments'[i].start_date = new
           /\ (old = NULL /\ activated # {}) =>
                \E i \in activated : investments'[i].start_date = new ]_vars

\* C23: process_withdrawal fails and changes nothing for a caller who is not
\* an administrator; for an administrator it leaves processed_at set exactly
\* when the new status is completed or rejected; and in every state a
\* withdrawal has a processed_at exactly when its status is completed or
\* rejected.
C23_ProcessedAtIffDecided ==
  /\ \A w \in BagToSet(withdrawals) :
       (w.processed_at # NULL) <=> (w.status \in {"completed", "rejected"})
  /\ \A w \in BagToSet(withdrawals) : \A st \in WithdrawalStatuses :
       /\ \A caller \in WdUpdaters :
            LET res == process_withdrawal(withdrawals, caller, w, st, clock)
            IN ~ res.ok /\ res.withdrawals = withdrawals
       /\ \A caller \in Callers : IsAdmin(caller) =>
            LET res == process_withdrawal(withdrawals, caller, w, st, clock)
                row == [ w EXCEPT !.status = st,
                                  !.processed_at = IF st \in {"completed", "rejected"}
                                                   THEN clock ELSE NULL ]
            IN /\ res.ok
               /\ row \in BagToSet(res.withdrawals)
               /\ RowsOf(res.withdrawals) = RowsOf(withdrawals)

\* C24: a caller who is not an administrator changes a withdrawal only by
\* turning their own pending withdrawal into a cancelled one: every other
\* update they send (of a processing, completed, rejected or cancelled row, of
\* another owner's row, to another status or to another owner) and every call
\* of process_withdrawal they make leaves the table as it was.
C24_OwnerOnlyCancelsPending ==
  /\ [](\A caller \in WdUpdaters : \A w \in BagToSet(withdrawals) :
          \A st \in WithdrawalStatuses : \A owner \in WdUpdaters :
            LET row == [ w EXCEPT !.status = st, !.user_id = owner ]
            IN /\ update_withdrawal(withdrawals, caller, w, row) # withdrawals =>
                    /\ caller = w.user_id
                    /\ w.status = "pending"
                    /\ st = "cancelled"
                    /\ owner = w.user_id
               /\ process_withdrawal(withdrawals, caller, w, st, clock).withdrawals
                    = withdrawals)
  /\ [][ \A caller \in WdUpdaters : \A w \in BagToSet(withdrawals) :
           \A st \in WithdrawalStatuses :
             ( /\ UpdateWithdrawal(caller, w, st) \/ ProcessWithdrawal(caller, w, st)
               /\ withdrawals' # withdrawals )
             => /\ caller = w.user_id
                /\ w.status = "pending"
                /\ withdrawals' = (withdrawals (-) SetToBag({w}))
                                    (+) SetToBag({[ w EXCEPT !.status = "cancelled" ]}) ]_vars

\* The owner cancelled a pending withdrawal while another withdrawal of theirs
\* is processing: the first is cancelled, and no update of the owner reaches
\* the second.
C24_Witness ==
  \E w, x \in BagToSet(withdrawals) :
    /\ w.user_id = 3 /\ w.status = "cancelled"
    /\ x.user_id = 3 /\ x.status = "processing"
    /\ ~ MayUpdateWithdrawal(3, x)
    /\ \A t \in 1..NumTabs : tabs[t].pc = "idle"

\* C25: an investment that is active and whose term is over (now() is past
\* its end_date, 40 months after its start_date) eventually is completed.
C25_ActiveEventuallyCompleted ==
  \A i \in 1..MaxInvestments :
    ( /\ i \in DOMAIN investments
      /\ investments[i].status = "active"
      /\ investments[i].end_date = investments[i].start_date + TermMonths * TicksPerMonth
      /\ clock > investments[i].end_date )
    ~> ( /\ i \in DOMAIN investments
         /\ investments[i].status = "completed" )

\* C26: with min_balance_required = 0, requests made one at a time after
\* their eligibility call, calls of process_withdrawal and cancellations by
\* the owner never take the sum of an owner's completed, processing and
\* pending withdrawals above the sum of the owner's paid earnings.
C26_NeverWithdrawsMoreThanEarned ==
  withdrawal_settings.min_balance_required = 0 =>
    \A u \in WdUsers :
      SumAmounts(BagWhere(withdrawals,
                          LAMBDA w : /\ w.user_id = u
                                     /\ w.status \in {"completed", "processing", "pending"}))
        <= PaidEarnings(u)

\* C27: the referral rows form one consistent upward chain: for every row
\* (A, D, k + 1) with k >= 1 there is an account P with the rows (P, D, k) and
\* (A, P, 1), also when an account of the chain signed up with a code that was
\* skipped because its holder was at the cap or because nobody held it.
C27_EdgesFormOneChain ==
  \A e \in referrals :
    e.level >= 2 =>
      \E p \in DOMAIN profiles :
        /\ [ referrer_id |-> p, referred_id |-> e.referred_id, level |-> e.level - 1 ]
             \in referrals
        /\ [ referrer_id |-> e.referrer_id, referred_id |-> p, level |-> 1 ] \in referrals

\* C28: in every state an investment that is pending_proof, pending_approval,
\* rejected or cancelled has no earnings row: earnings rows exist only for
\* investments that are active or completed, whatever calls of
\* approve_investment were made on them.
C28_EarningsOnlyForActive ==
  \A i \in DOMAIN investments :
    investments[i].status \notin {"active", "completed"} => EarningsOf(i) = EmptyBag

\* C29: in every state the available balance the withdrawals page shows to
\* an owner equals the balance check_withdrawal_eligibility works with (paid
\* earnings minus pending and processing withdrawals), so that, with no
\* balance to be kept, a request within the limits is accepted exactly when
\* its amount is at most the balance shown.
C29_ShownBalanceIsEvaluatedBalance ==
  \A u \in WdUsers :
    LET shown == fetchData(earnings, withdrawals, u).available_balance
    IN /\ shown = PaidEarnings(u) - OpenWithdrawals(u)
       /\ withdrawal_settings.min_balance_required = 0 =>
            \A a \in WdAmounts :
              ( /\ a >= withdrawal_settings.min_withdrawal_amount
                /\ a <= withdrawal_settings.max_withdrawal_amount )
              => ( check_withdrawal_eligibility(earnings, withdrawals, withdrawal_settings,
                                                u, a).eligible
                   <=> a <= shown )

\* C30: for every commission record of an active investment of a plan's
\* amount the ancestor's referral tree has a row for the same descendant,
\* level and amount, and the commission of that row, as get_referral_tree
\* returns it and as Dashboard.calculateCommission recomputes it, equals the
\* record's commission amount; and for every plan amount and every level
\* 1..10 the three computations give the same commission.
C30_ReportedCommissionIsRecorded ==
  \A e \in BagToSet(referral_earnings) :
    ( /\ investments[e.investment_id].status = "active"
      /\ e.roi_amount \in INVESTMENT_PLANS )
    => /\ \E row \in get_referral_tree(referrals, investments, e.referrer_id) :
            /\ row.referred_id = e.referred_id
            /\ row.level = e.level
            /\ row.investment_amount = e.roi_amount
       /\ \A row \in get_referral_tree(referrals, investments, e.referrer_id) :
            ( /\ row.referred_id = e.referred_id
              /\ row.level = e.level
              /\ row.investment_amount = e.roi_amount )
            => /\ row.commission = e.commission_amount * 10000
               /\ calculateCommission(row.level, row.investment_amount)
                    = e.commission_amount * 10000
       /\ \A l \in 1..MaxLevel : \A a \in INVESTMENT_PLANS :
            LET recorded == CommissionRow([ referrer_id |-> e.referrer_id,
                                            referred_id |-> e.referred_id,
                                            level |-> l,
                                            commission_rate |-> commission_rate(l) ],
                                          e.investment_id,
                                          [ investments[e.investment_id] EXCEPT !.amount = a ],
                                          e.earned_at).commission_amount
            IN /\ a * RoiPercent * commission_rate(l) = recorded * 10000
               /\ calculateCommission(l, a) = recorded * 10000

====
